---- MODULE Spec2Model ----
(***************************************************************************)
(* Route planning and travel simulation of Grafos_Burrito:                 *)
(*   models/star.py, models/graph.py, models/burro.py, config/loader.py    *)
(*   and screens/constellation_view.py (ConstellationView).                *)
(*                                                                         *)
(* Numbers.  Python floats are modelled in fixed point:                    *)
(*   distances and the life budget in units of 1/DistScale of a distance   *)
(*   unit (1/128: exactly representable in binary floating point, and      *)
(*   finer than the hundredths the memo key of the search truncates to).   *)
(*   energy in units of 1/EnergyScale: the hypergiant bonus halves the     *)
(*   energy and a kilogram of food gives a hundredth of energia_max times  *)
(*   a percentage, so with EnergyScale = 200 * 2^MaxStops every value the  *)
(*   traveler's energy takes within MaxStops stops is a whole number of    *)
(*   units (the rounding of binary floating point is not modelled);        *)
(*   seconds spent at a star and kilograms eaten in halves (StayScale);    *)
(*   travel time in units of 1/TimeScale of a second.                      *)
(* Python dicts are insertion ordered: a dict is a sequence of             *)
(* <<key, value>> pairs with pairwise distinct keys.  None is <<>> and a   *)
(* value x that may be None is <<x>>.                                      *)
(* The view is driven by screens/manager.py (ViewManager): it receives     *)
(* events and updates only while it is the current view, on_enter runs     *)
(* each time it becomes the current view, and an exception raised by a     *)
(* handler ends that handler with the assignments made so far.  Fields     *)
(* that only feed the rendering (fonts, zoom, hover, pulse, selection,     *)
(* report panel, animations and sounds) are left out, and so is            *)
(* await_next_step, which is assigned but never read.                      *)
(***************************************************************************)
EXTENDS Integers, Sequences, FiniteSets, TLC

VARIABLES
    graphs,          \* ConstellationView.graphs: 0-based list of Graph
    current_index,   \* ConstellationView.current_index
    blocked_edges,   \* ConstellationView.blocked_edges: set of <<gi, a, b>>
    mission_params,  \* ConstellationView.mission_params
    burro,           \* ConstellationView.burro (models/burro.py)
    call,            \* the planner call under test: arguments and result
    entered,         \* ViewManager.current_view is this view
    _burro_data,     \* ConstellationView._burro_data: the JSON block of the burro
    burro_initial_star_selected,
    planned_path,    \* list of star ids
    current_travel,  \* <<>> or <<from_id, to_id>>
    current_travel_time,
    current_travel_duration,
    visited_stars,
    travel_log,
    block_mode,
    last_route_target_id,  \* <<>> or <<star_id>>
    morir_calls,     \* calls of Burro.morir made by the last update(dt)
    last_event       \* the handler ViewManager ran last, where a behaviour records it

plan_vars == <<graphs, current_index, blocked_edges, mission_params, burro>>

travel_vars == <<entered, _burro_data, burro_initial_star_selected, planned_path,
                 current_travel, current_travel_time, current_travel_duration,
                 visited_stars, travel_log, block_mode, last_route_target_id,
                 morir_calls>>

vars == <<plan_vars, call, travel_vars, last_event>>

---------------------------------------------------------------------------
(* Insertion-ordered dicts *)

Keys(d) == {d[i][1] : i \in 1..Len(d)}

DictGet(d, k, default) ==
    IF k \in Keys(d)
    THEN d[CHOOSE i \in 1..Len(d) : d[i][1] = k][2]
    ELSE default

DictSet(d, k, v) ==
    IF k \in Keys(d)
    THEN LET i == CHOOSE j \in 1..Len(d) : d[j][1] = k
         IN  SubSeq(d, 1, i - 1) \o << <<k, v>> >> \o SubSeq(d, i + 1, Len(d))
    ELSE Append(d, <<k, v>>)

---------------------------------------------------------------------------
(* models/star.py, models/graph.py *)

\* units of the model per distance unit
DistScale == 128

Star(id, time_to_eat, hypergiant) ==
    [id |-> id, time_to_eat |-> time_to_eat, time_to_research |-> time_to_eat,
     hypergiant |-> hypergiant, connections |-> <<>>]

add_connection(star, star_id, distance) ==
    [star EXCEPT !.connections = DictSet(@, star_id, distance)]

Graph(name) == [name |-> name, vertices |-> <<>>, external_links |-> <<>>]

add_star(g, star) == [g EXCEPT !.vertices = DictSet(@, star.id, star)]

HasStar(g, id) == id \in Keys(g.vertices)

\* defined where HasStar(g, id); the code's None is the case ~HasStar(g, id)
get_star(g, id) == DictGet(g.vertices, id, <<>>)

SetStar(g, star) == [g EXCEPT !.vertices = DictSet(@, star.id, star)]

add_edge(g, from_id, to_id, distance) ==
    IF HasStar(g, from_id) /\ HasStar(g, to_id)
    THEN LET g1 == SetStar(g, add_connection(get_star(g, from_id), to_id, distance))
         IN  SetStar(g1, add_connection(get_star(g1, to_id), from_id, distance))
    ELSE g

get_all_stars(g) == [i \in 1..Len(g.vertices) |-> g.vertices[i][2]]

add_external_link(g, from_id, to_id, distance) ==
    [g EXCEPT !.external_links = Append(@, <<from_id, to_id, distance>>)]

StarIds(g) == Keys(g.vertices)

---------------------------------------------------------------------------
(* config/loader.py: cargar_grafo_desde_json.  `data` is the parsed JSON:   *)
(* a sequence of constellations [name, stars], each star                    *)
(* [id, timeToEat, hypergiant, linkedTo], linkedTo a sequence of            *)
(* <<starId, distance>>.                                                    *)

RECURSIVE LoadStars(_, _)
LoadStars(g, stars) ==
    IF stars = <<>> THEN g
    ELSE LET s == Head(stars)
         IN  LoadStars(add_star(g, Star(s.id, s.timeToEat, s.hypergiant)), Tail(stars))

\* first pass: one Graph per constellation, holding its stars
FirstPass(data) == [k \in 1..Len(data) |-> LoadStars(Graph(data[k].name), data[k].stars)]

\* graph_by_star_id (star ids are unique in the universe)
GraphOfStar(gs, id) == CHOOSE k \in 1..Len(gs) : HasStar(gs[k], id)

InUniverse(gs, id) == \E k \in 1..Len(gs) : HasStar(gs[k], id)

RECURSIVE StarLinks(_, _)
StarLinks(from_id, linkedTo) ==
    IF linkedTo = <<>> THEN <<>>
    ELSE <<<<from_id, Head(linkedTo)[1], Head(linkedTo)[2]>>>> \o StarLinks(from_id, Tail(linkedTo))

RECURSIVE StarsLinks(_)
StarsLinks(stars) ==
    IF stars = <<>> THEN <<>>
    ELSE StarLinks(Head(stars).id, Head(stars).linkedTo) \o StarsLinks(Tail(stars))

\* every link of the file, in the order the second pass meets them
RECURSIVE AllLinks(_)
AllLinks(data) ==
    IF data = <<>> THEN <<>> ELSE StarsLinks(Head(data).stars) \o AllLinks(Tail(data))

ApplyLink(gs, link) ==
    LET from_id == link[1]
        to_id   == link[2]
        dist    == link[3]
    IN  IF ~InUniverse(gs, from_id) \/ ~InUniverse(gs, to_id) THEN gs
        ELSE LET fg == GraphOfStar(gs, from_id)
                 tg == GraphOfStar(gs, to_id)
             IN  IF fg = tg
                 THEN [gs EXCEPT ![fg] = add_edge(@, from_id, to_id, dist)]
                 ELSE LET gs1 == [gs  EXCEPT ![fg] = add_external_link(@, from_id, to_id, dist)]
                          gs2 == [gs1 EXCEPT ![tg] = add_external_link(@, to_id, from_id, dist)]
                          gs3 == [gs2 EXCEPT ![fg] =
                                     SetStar(@, add_connection(get_star(@, from_id), to_id, dist))]
                      IN  [gs3 EXCEPT ![tg] =
                                     SetStar(@, add_connection(get_star(@, to_id), from_id, dist))]

RECURSIVE SecondPass(_, _)
SecondPass(gs, links) ==
    IF links = <<>> \/ gs = <<>> THEN gs
    ELSE SecondPass(ApplyLink(gs, Head(links)), Tail(links))

cargar_grafo_desde_json(data) == SecondPass(FirstPass(data), AllLinks(data))

---------------------------------------------------------------------------
(* ConstellationView: graphs is a Python list, indexed from 0 *)

GraphAt(gi) == graphs[gi + 1]

\* the lookup without the canonical order of the endpoints
_edge_blocked_as_given(gi, a, b) == <<gi, a, b>> \in blocked_edges

\* ConstellationView._edge_blocked
_edge_blocked(gi, a, b) ==
    LET x == IF a < b THEN a ELSE b
        y == IF a < b THEN b ELSE a
    IN  <<gi, x, y>> \in blocked_edges

---------------------------------------------------------------------------
(* ConstellationView._dijkstra_path.  st = [dist, prev, pq]: dist and prev   *)
(* are the dicts (functions on the keys set so far), prev[v] is <<u>> or,    *)
(* for None, <<>>; pq is the heap, the set of its <<d, u>> tuples.           *)

\* a queue that hands out the smallest node id, whatever its distance
HeapMinById(pq) ==
    CHOOSE t \in pq : \A o \in pq : t[2] < o[2] \/ (t[2] = o[2] /\ t[1] <= o[1])

\* heapq.heappop: the smallest tuple
HeapMin(pq) ==
    CHOOSE t \in pq : \A o \in pq : t[1] < o[1] \/ (t[1] = o[1] /\ t[2] <= o[2])

RECURSIVE DijkstraRelax(_, _, _, _, _, _)
DijkstraRelax(gi, u, d, conns, i, st) ==
    IF i > Len(conns) THEN st
    ELSE LET v  == conns[i][1]
             w  == conns[i][2]
             nd == d + w
         IN  IF _edge_blocked(gi, u, v)
             THEN DijkstraRelax(gi, u, d, conns, i + 1, st)
             ELSE IF v \notin DOMAIN st.dist \/ nd < st.dist[v]
             THEN DijkstraRelax(gi, u, d, conns, i + 1,
                      [dist |-> (v :> nd) @@ st.dist,
                       prev |-> (v :> <<u>>) @@ st.prev,
                       pq   |-> st.pq \cup {<<nd, v>>}])
             ELSE DijkstraRelax(gi, u, d, conns, i + 1, st)

\* the connections of u read from whichever constellation holds the star
ConnectionsAnywhere(gi, u) ==
    IF InUniverse(graphs, u)
    THEN get_star(graphs[GraphOfStar(graphs, u)], u).connections
    ELSE <<>>

\* _dijkstra_path, `u_star = g.get_star(u); if not u_star: continue`: the
\* connections the search expands from u, none for a star that is not of the
\* constellation gi
ConnectionsOf(gi, u) ==
    IF HasStar(GraphAt(gi), u) THEN get_star(GraphAt(gi), u).connections ELSE <<>>

RECURSIVE DijkstraLoop(_, _, _)
DijkstraLoop(gi, target_id, st) ==
    IF st.pq = {} THEN st
    ELSE LET top == HeapMin(st.pq)
             d   == top[1]
             u   == top[2]
             st1 == [st EXCEPT !.pq = @ \ {top}]
         IN  IF u = target_id THEN st1
             ELSE IF d > st1.dist[u] THEN DijkstraLoop(gi, target_id, st1)
             ELSE DijkstraLoop(gi, target_id,
                      DijkstraRelax(gi, u, d, ConnectionsOf(gi, u), 1, st1))

\* the reconstruction loop: path holds the nodes from the target backwards
RECURSIVE DijkstraWalk(_, _, _)
DijkstraWalk(prev, cur, path) ==
    IF cur \in DOMAIN prev /\ prev[cur] # <<>>
    THEN DijkstraWalk(prev, prev[cur][1], <<prev[cur][1]>> \o path)
    ELSE path

\* without the test for a target that was never reached
_dijkstra_path_no_unreachable_test(gi, start_id, target_id) ==
    LET st == DijkstraLoop(gi, target_id,
                  [dist |-> (start_id :> 0), prev |-> (start_id :> <<>>),
                   pq |-> {<<0, start_id>>}])
    IN  DijkstraWalk(st.prev, target_id, <<target_id>>)

\* with the test for the start taken as a failure
_dijkstra_path_start_unreachable(gi, start_id, target_id) ==
    LET st == DijkstraLoop(gi, target_id,
                  [dist |-> (start_id :> 0), prev |-> (start_id :> <<>>),
                   pq |-> {<<0, start_id>>}])
    IN  IF target_id \notin DOMAIN st.prev \/ target_id = start_id
        THEN <<>>
        ELSE DijkstraWalk(st.prev, target_id, <<target_id>>)

_dijkstra_path(gi, start_id, target_id) ==
    LET st == DijkstraLoop(gi, target_id,
                  [dist |-> (start_id :> 0), prev |-> (start_id :> <<>>),
                   pq |-> {<<0, start_id>>}])
    IN  IF target_id \notin DOMAIN st.prev /\ target_id # start_id
        THEN <<>>
        ELSE DijkstraWalk(st.prev, target_id, <<target_id>>)

---------------------------------------------------------------------------
(* The two searches for the largest number of stars.                        *)

RECURSIVE Pow2(_)
Pow2(k) == IF k = 0 THEN 1 ELSE 2 * Pow2(k - 1)

\* visited_mask & bit
BitSet(mask, bit) == (mask \div bit) % 2 = 1

\* bin(visited_mask).count('1')
RECURSIVE PopCount(_)
PopCount(mask) == IF mask = 0 THEN 0 ELSE (mask % 2) + PopCount(mask \div 2)

\* id_to_idx = {sid: i for i, sid in enumerate(id_list)}; defined for the stars of g
IdToIdx(g, sid) == (CHOOSE i \in 1..Len(g.vertices) : g.vertices[i][1] = sid) - 1

\* int(x / q) for integers: Python's int() truncates towards zero
TruncDiv(x, q) == IF x >= 0 THEN x \div q ELSE -((-x) \div q)

\* rem_key = int(remaining * 100): the remaining budget in whole hundredths
RemKey(remaining) == TruncDiv(remaining * 100, DistScale)

\* the unblocked connections of a star, in dict order
RECURSIVE Unblocked(_, _, _)
Unblocked(gi, sid, conns) ==
    IF conns = <<>> THEN <<>>
    ELSE IF _edge_blocked(gi, sid, Head(conns)[1])
         THEN Unblocked(gi, sid, Tail(conns))
         ELSE <<Head(conns)>> \o Unblocked(gi, sid, Tail(conns))

\* list.sort(key=lambda t: t[1]): stable, ascending weight
RECURSIVE SortByWeight(_)
SortByWeight(vecs) ==
    IF vecs = <<>> THEN <<>>
    ELSE LET rest == SortByWeight(SubSeq(vecs, 1, Len(vecs) - 1))
             x    == vecs[Len(vecs)]
             k    == Cardinality({i \in 1..Len(rest) : rest[i][2] <= x[2]})
         IN  SubSeq(rest, 1, k) \o <<x>> \o SubSeq(rest, k + 1, Len(rest))

\* adj of _max_stars_path_v2 (sorted) and of _max_stars_path (dict order)
AdjSorted(gi) ==
    [sid \in StarIds(GraphAt(gi)) |->
        SortByWeight(Unblocked(gi, sid, get_star(GraphAt(gi), sid).connections))]

AdjPlain(gi) ==
    [sid \in StarIds(GraphAt(gi)) |->
        Unblocked(gi, sid, get_star(GraphAt(gi), sid).connections)]

\* best_path, best_count, best_dist (float('inf') is never compared: a count
\* equal to best_count means a path has been recorded), memo, and the number
\* of dfs calls made so far
SearchInit ==
    [best_path |-> <<>>, best_count |-> -1, best_dist |-> "inf", memo |-> <<>>, calls |-> 0]

Better(count, dist_acc, st) ==
    count > st.best_count \/ (count = st.best_count /\ dist_acc < st.best_dist)

\* `if w > remaining: continue`: the edge is taken when this holds
AffordableNoCheck(w, remaining) == TRUE

Affordable(w, remaining) == ~(w > remaining)

(* _max_stars_path_v2.dfs.  c = [target_id, n, adj, g] is what the closure   *)
(* captures; st is the nonlocal state, returned as updated.                  *)
RECURSIVE dfs_v2(_, _, _, _, _, _, _)
RECURSIVE dfs_v2_expand(_, _, _, _, _, _, _, _)

dfs_v2(c, node, remaining, visited_mask, path, dist_acc, st) ==
    IF node = c.target_id
    THEN IF Better(Len(path), dist_acc, st)
         THEN [st EXCEPT !.best_count = Len(path), !.best_dist = dist_acc, !.best_path = path]
         ELSE st
    ELSE LET visited_count      == Len(path)
             remaining_possible == c.n - visited_count
             theoretical_max    == visited_count + remaining_possible
             key                == <<node, visited_mask, RemKey(remaining)>>
         IN  IF visited_count + remaining_possible < st.best_count THEN st
             ELSE IF key \in DOMAIN st.memo /\ theoretical_max <= st.memo[key] THEN st
             ELSE dfs_v2_expand(c, node, remaining, visited_mask, path, dist_acc, 1,
                                [st EXCEPT !.memo = (key :> theoretical_max) @@ @])

\* the loop over adj.get(node, []) from its i-th entry on
dfs_v2_expand(c, node, remaining, visited_mask, path, dist_acc, i, st) ==
    LET vecs == IF node \in DOMAIN c.adj THEN c.adj[node] ELSE <<>>
    IN  IF i > Len(vecs) THEN st
        ELSE LET nb == vecs[i][1]
                 w  == vecs[i][2]
             IN  IF ~Affordable(w, remaining) \/ ~HasStar(c.g, nb)
                 THEN dfs_v2_expand(c, node, remaining, visited_mask, path, dist_acc, i + 1, st)
                 ELSE LET bit == Pow2(IdToIdx(c.g, nb))
                      IN  IF BitSet(visited_mask, bit)
                          THEN dfs_v2_expand(c, node, remaining, visited_mask, path,
                                             dist_acc, i + 1, st)
                          ELSE dfs_v2_expand(c, node, remaining, visited_mask, path,
                                   dist_acc, i + 1,
                                   dfs_v2(c, nb, remaining - w, visited_mask + bit,
                                          Append(path, nb), dist_acc + w, st))

(* _max_stars_path.dfs, the time-boxed search.  c.cut is the number of dfs   *)
(* calls that begin before time.time() - start_time exceeds time_limit       *)
(* (-1: the limit is never exceeded); the clock only moves forward, so       *)
(* every later call returns at once as well.                                 *)
RECURSIVE dfs_v1(_, _, _, _, _, _, _)
RECURSIVE dfs_v1_expand(_, _, _, _, _, _, _, _)

dfs_v1(c, node, remaining, visited_mask, path, dist_acc, st0) ==
    LET st == [st0 EXCEPT !.calls = @ + 1]
    IN  IF c.cut >= 0 /\ st0.calls >= c.cut THEN st
        ELSE IF node = c.target_id
        THEN IF Better(PopCount(visited_mask), dist_acc, st)
             THEN [st EXCEPT !.best_count = PopCount(visited_mask), !.best_dist = dist_acc,
                             !.best_path = path]
             ELSE st
        ELSE LET visited_count      == PopCount(visited_mask)
                 remaining_possible == c.n - visited_count
             IN  IF visited_count + remaining_possible < st.best_count THEN st
                 ELSE dfs_v1_expand(c, node, remaining, visited_mask, path, dist_acc, 1, st)

dfs_v1_expand(c, node, remaining, visited_mask, path, dist_acc, i, st) ==
    LET vecs == IF node \in DOMAIN c.adj THEN c.adj[node] ELSE <<>>
    IN  IF i > Len(vecs) THEN st
        ELSE LET nb == vecs[i][1]
                 w  == vecs[i][2]
             IN  IF ~HasStar(c.g, nb)
                 THEN dfs_v1_expand(c, node, remaining, visited_mask, path, dist_acc, i + 1, st)
                 ELSE LET bit == Pow2(IdToIdx(c.g, nb))
                      IN  IF BitSet(visited_mask, bit) \/ ~Affordable(w, remaining)
                          THEN dfs_v1_expand(c, node, remaining, visited_mask, path,
                                             dist_acc, i + 1, st)
                          ELSE dfs_v1_expand(c, node, remaining, visited_mask, path,
                                   dist_acc, i + 1,
                                   dfs_v1(c, nb, remaining - w, visited_mask + bit,
                                          Append(path, nb), dist_acc + w, st))

\* the time-boxed search that, cut with no path recorded, gives the start alone
_max_stars_path_partial(gi, start_id, target_id, life_budget, cut) ==
    LET g == GraphAt(gi)
        c == [target_id |-> target_id, n |-> Len(g.vertices), adj |-> AdjPlain(gi),
              g |-> g, cut |-> cut]
        r == dfs_v1(c, start_id, life_budget, Pow2(IdToIdx(g, start_id)),
                    <<start_id>>, 0, SearchInit)
    IN  IF r.best_path = <<>> /\ cut >= 0 /\ r.calls > cut THEN <<start_id>>
        ELSE r.best_path

_max_stars_path(gi, start_id, target_id, life_budget, cut) ==
    LET g == GraphAt(gi)
        c == [target_id |-> target_id, n |-> Len(g.vertices), adj |-> AdjPlain(gi),
              g |-> g, cut |-> cut]
    IN  IF start_id = target_id THEN <<start_id>>
        ELSE dfs_v1(c, start_id, life_budget, Pow2(IdToIdx(g, start_id)),
                    <<start_id>>, 0, SearchInit).best_path

\* n > 26: the constellations the memoized search hands to the time-boxed one
NodeCeiling == 26

_max_stars_path_v2(gi, start_id, target_id, life_budget, cut) ==
    LET g == GraphAt(gi)
        n == Len(g.vertices)
        c == [target_id |-> target_id, n |-> n, adj |-> AdjSorted(gi), g |-> g]
    IN  IF start_id = target_id THEN <<start_id>>
        ELSE IF n = 0 THEN <<>>
        ELSE IF n > NodeCeiling
        THEN _max_stars_path(gi, start_id, target_id, life_budget, cut)
        ELSE LET best_path == dfs_v2(c, start_id, life_budget, Pow2(IdToIdx(g, start_id)),
                                     <<start_id>>, 0, SearchInit).best_path
             IN  IF best_path = <<>>
                 THEN _dijkstra_path(gi, start_id, target_id)
                 ELSE best_path

\* without the fallback to the minimum-cost route
_compute_route_no_fallback(mp, gi, start_id, target_id, cut) ==
    IF mp.routeObjective = "min_cost"
    THEN _dijkstra_path(gi, start_id, target_id)
    ELSE IF Len(GraphAt(gi).vertices) > NodeCeiling
    THEN _max_stars_path(gi, start_id, target_id, burro.tiempo_vida, cut)
    ELSE IF start_id = target_id THEN <<start_id>>
    ELSE dfs_v2([target_id |-> target_id, n |-> Len(GraphAt(gi).vertices),
                 adj |-> AdjSorted(gi), g |-> GraphAt(gi)],
                start_id, burro.tiempo_vida, Pow2(IdToIdx(GraphAt(gi), start_id)),
                <<start_id>>, 0, SearchInit).best_path

\* ConstellationView._compute_route, with mp the mission_params of the view
\* at the call
_compute_route(mp, gi, start_id, target_id, cut) ==
    LET objective   == mp.routeObjective
        life_budget == burro.tiempo_vida
    IN  IF objective = "min_cost"
        THEN _dijkstra_path(gi, start_id, target_id)
        ELSE LET path == _max_stars_path_v2(gi, start_id, target_id, life_budget, cut)
             IN  IF path = <<>>
                 THEN _dijkstra_path(gi, start_id, target_id)
                 ELSE path

---------------------------------------------------------------------------
(* Universes: the JSON documents the planner is exercised on.               *)

JStar(id, timeToEat, hypergiant, linkedTo) ==
    [id |-> id, timeToEat |-> timeToEat, hypergiant |-> hypergiant, linkedTo |-> linkedTo]

\* The line A-B-C (stars 1, 2, 3) with weights 5 and 5; C is a hypergiant
\* linked to the hypergiant 4 of a second constellation.
DataLine ==
    << [name |-> "Linea",
        stars |-> << JStar(1, 2, FALSE, << <<2, 5 * DistScale>> >>),
                     JStar(2, 1, FALSE, << <<3, 5 * DistScale>> >>),
                     JStar(3, 2, TRUE,  << <<4, 7 * DistScale>> >>) >>],
       [name |-> "Otra",
        stars |-> << JStar(4, 1, TRUE,  << <<5, 3 * DistScale>> >>),
                     JStar(5, 3, FALSE, << >>) >>] >>

\* Five stars whose distances differ by less than a hundredth.
DataFine ==
    << [name |-> "Fina",
        stars |-> << JStar(1, 1, FALSE, << <<3, 2>>, <<4, 2>> >>),
                     JStar(2, 1, FALSE, << >>),
                     JStar(3, 1, FALSE, << <<2, 1>>, <<4, 2>> >>),
                     JStar(4, 1, FALSE, << <<2, 2>> >>),
                     JStar(5, 1, FALSE, << <<2, 1>> >>) >>] >>

\* "Dentro": the line 1-2-4 with weights 5 and 5; "Fuera": the star 3 alone,
\* linked to 1 and to 4 at distance 1: a way from 1 to 4 that leaves the
\* constellation is shorter than the way inside.
DataCross ==
    << [name |-> "Dentro",
        stars |-> << JStar(1, 1, TRUE,  << <<2, 5 * DistScale>>, <<3, DistScale>> >>),
                     JStar(2, 1, FALSE, << <<4, 5 * DistScale>> >>),
                     JStar(4, 1, TRUE,  << <<3, DistScale>> >>) >>],
       [name |-> "Fuera",
        stars |-> << JStar(3, 1, TRUE,  << >>) >>] >>

\* More stars than the memoized search accepts: a triangle 1-2-3 whose side
\* 1-2 is longer than the other two together, with a tail 3-4-5-6, and the
\* remaining stars chained apart from them.
DataBig ==
    << [name |-> "Grande",
        stars |-> [i \in 1..(NodeCeiling + 1) |->
                     JStar(i, 1, FALSE,
                           IF i = 1 THEN << <<2, 3 * DistScale>>, <<3, DistScale>> >>
                           ELSE IF i = 6 \/ i > NodeCeiling THEN << >>
                           ELSE << <<i + 1, DistScale>> >>)]] >>

---------------------------------------------------------------------------
(* models/burro.py: Burro.__init__ from the JSON block of the burro *)

\* stops (arrivals entered in the travel log) a behaviour may make
MaxStops == 2

\* units of the model per unit of energy
EnergyScale == 200 * Pow2(MaxStops)

\* the JSON block gives energy and food in whole units, and the life budget
\* in units of 1/DistScale like the distances
Burro(data) ==
    [energia          |-> data.energiaInicial * EnergyScale,
     energia_max      |-> data.energiaInicial * EnergyScale,
     estado_salud     |-> data.estadoSalud,
     pasto_disponible |-> data.pastoDisponibleKg,
     pasto_max        |-> data.pastoDisponibleKg,
     tiempo_vida      |-> data.tiempoDeVidaAniosLuz,
     consumo_energia  |-> data.consumoEnergiaInvestigacion * EnergyScale,
     current_star_id  |-> <<>>]

\* the move that charges the energy without the floor at 0
moverse_a_estrella_no_floor(b, star_id) ==
    [b EXCEPT !.current_star_id = <<star_id>>,
              !.energia = @ - b.consumo_energia]

\* Burro.moverse_a_estrella
moverse_a_estrella(b, star_id) ==
    [b EXCEPT !.current_star_id = <<star_id>>,
              !.energia = IF @ - b.consumo_energia > 0 THEN @ - b.consumo_energia ELSE 0]

\* Burro.esta_vivo
esta_vivo(b) == b.energia > 0

\* ConstellationView.__init__: the mission parameters used when none are given;
\* maxEatFraction 0.5 is the fraction <<1, 2>>
MissionDefaults ==
    [maxEatFraction         |-> <<1, 2>>,
     kgPerSecondEat         |-> 5,
     energyPerKgPct         |-> << <<"Excelente", 5>>, <<"Regular", 3>>, <<"Malo", 2>> >>,
     researchEnergyPerSecond |-> 2,
     travelSpeedUnits       |-> 100,
     routeObjective         |-> "max_stars"]

BurroData(energia, pasto, vida) ==
    [energiaInicial |-> energia, estadoSalud |-> "Excelente", pastoDisponibleKg |-> pasto,
     tiempoDeVidaAniosLuz |-> vida, consumoEnergiaInvestigacion |-> 1]

---------------------------------------------------------------------------
(* The planner as a function of its inputs: every universe of the catalog,  *)
(* every small set of blocked edges, both objectives, a range of budgets.   *)

MaxBlocked  == 2    \* edges blocked at once
MaxBudget   == 6    \* life budgets 0..MaxBudget, in units of 1/DistScale
MaxEndpoint == 5    \* start and target are stars with id <= MaxEndpoint
MaxCut      == 3    \* the time limit may strike before any of the first MaxCut calls

\* (gi, a, b) with a < b: the edges of constellation gi, as the registry names them
EdgeKeys(gs, gi) ==
    {<<gi, a, b>> : a \in StarIds(gs[gi + 1]), b \in StarIds(gs[gi + 1])} \cap
    {k \in {<<gi, a, b>> : a \in StarIds(gs[gi + 1]), b \in StarIds(gs[gi + 1])} :
        k[2] < k[3] /\ k[3] \in Keys(get_star(gs[gi + 1], k[2]).connections)}

\* each universe with the life budgets tried on it: whole distances for the
\* ones with whole weights, 0..MaxBudget units and a large one for DataFine
Catalog ==
    {[graphs  |-> cargar_grafo_desde_json(DataLine),
      budgets |-> {k * DistScale : k \in {0, 2, 5, 12}}],
     [graphs  |-> cargar_grafo_desde_json(DataFine),
      budgets |-> (0..MaxBudget) \cup {12 * DistScale}],
     [graphs  |-> cargar_grafo_desde_json(DataCross),
      budgets |-> {k * DistScale : k \in {0, 2, 5, 12}}],
     [graphs  |-> cargar_grafo_desde_json(DataBig),
      budgets |-> {k * DistScale : k \in {0, 2, 12}}]}

PlanInit ==
    \E u \in Catalog :
        /\ graphs = u.graphs
        /\ current_index = 0
        /\ blocked_edges \in {b \in SUBSET {k \in EdgeKeys(graphs, 0) : k[3] <= MaxEndpoint} :
                                 Cardinality(b) <= MaxBlocked}
        /\ mission_params \in {[MissionDefaults EXCEPT !.routeObjective = o] :
                                 o \in {"min_cost", "max_stars"}}
        /\ _burro_data \in {BurroData(100, 300, b) : b \in u.budgets}
        /\ burro = Burro(_burro_data)
        /\ entered = FALSE
        /\ burro_initial_star_selected = FALSE
        /\ planned_path = <<>>
        /\ current_travel = <<>>
        /\ current_travel_time = 0
        /\ current_travel_duration = 0
        /\ visited_stars = {}
        /\ travel_log = <<>>
        /\ block_mode = FALSE
        /\ last_route_target_id = <<>>
        /\ morir_calls = 0
        /\ last_event = "__init__"
        /\ call \in {[state |-> "pending", gi |-> 0, start_id |-> s, target_id |-> t,
                      cut |-> k, route |-> <<>>] :
                        s \in {id \in StarIds(graphs[1]) : id <= MaxEndpoint},
                        t \in {id \in StarIds(graphs[1]) : id <= MaxEndpoint},
                        k \in IF Len(graphs[1].vertices) > NodeCeiling /\
                                 mission_params.routeObjective = "max_stars"
                              THEN (0..MaxCut) \cup {-1} ELSE {-1}}

\* the call returns
CallComputeRoute ==
    /\ call.state = "pending"
    /\ call' = [call EXCEPT !.state = "returned",
                            !.route = _compute_route(mission_params, call.gi,
                                                     call.start_id, call.target_id,
                                                     call.cut)]
    /\ UNCHANGED <<plan_vars, travel_vars, last_event>>

PlanNext == CallComputeRoute

PlanSpec == PlanInit /\ [][PlanNext]_vars

---------------------------------------------------------------------------
(* The travel simulation of ConstellationView.                              *)

\* units of the model per second of travel: with travelSpeedUnits 100 a
\* distance of d units of 1/DistScale takes d units of time
TimeScale == DistScale * 100

\* halves: seconds spent at a star and kilograms eaten
StayScale == 2

Max(a, b) == IF a > b THEN a ELSE b

Min(a, b) == IF a < b THEN a ELSE b

\* round(x, 2) of the value x / scale, in hundredths: to nearest, ties to even
Round2(x, scale) ==
    LET q == (x * 100) \div scale
        r == (x * 100) % scale
    IN  IF 2 * r < scale THEN q
        ELSE IF 2 * r > scale THEN q + 1
        ELSE IF q % 2 = 0 THEN q ELSE q + 1

\* list.index: the first position (from 0) of x in path, -1 for ValueError
IndexOf(path, x) ==
    IF \E i \in 1..Len(path) : path[i] = x
    THEN (CHOOSE i \in 1..Len(path) : path[i] = x /\ \A j \in 1..(i - 1) : path[j] # x) - 1
    ELSE -1

\* id_to_gi of _build_global_index: the last constellation that holds the star
id_to_gi(sid) ==
    IF \E i \in 1..Len(graphs) : HasStar(graphs[i], sid)
    THEN <<(CHOOSE i \in 1..Len(graphs) :
               HasStar(graphs[i], sid) /\ \A j \in (i + 1)..Len(graphs) : ~HasStar(graphs[j], sid)) - 1>>
    ELSE <<>>

\* _compute_route raises KeyError at `1 << id_to_idx[start_id]` when the
\* search for the most stars is given a start that is not a star of the
\* constellation
_compute_route_raises(mp, gi, start_id, target_id) ==
    /\ mp.routeObjective # "min_cost"
    /\ start_id # target_id
    /\ Len(GraphAt(gi).vertices) > 0
    /\ ~HasStar(GraphAt(gi), start_id)

\* the advance that always takes the first edge of the route
_advance_from_first_edge(path) ==
    IF Len(path) < 2 \/ burro.current_star_id = <<>> \/ ~HasStar(GraphAt(current_index), path[1])
    THEN [current_travel |-> <<>>, duration |-> current_travel_duration,
          time |-> current_travel_time, raised |-> FALSE]
    ELSE LET dist == DictGet(get_star(GraphAt(current_index), path[1]).connections, path[2], 0)
         IN  [current_travel |-> <<path[1], path[2]>>,
              duration |-> Max(TimeScale \div 5,
                               (dist * TimeScale) \div (DistScale * mission_params.travelSpeedUnits)),
              time |-> 0, raised |-> FALSE]

(* ConstellationView._advance_to_next_edge on the route path: the values it  *)
(* leaves in current_travel, current_travel_duration and current_travel_time,*)
(* and whether it raised (get_star(a) is None, after current_travel is set). *)
_advance_to_next_edge(path) ==
    LET none == [current_travel |-> <<>>, duration |-> current_travel_duration,
                 time |-> current_travel_time, raised |-> FALSE]
        cur  == burro.current_star_id
        idx  == IF cur = <<>> THEN -1 ELSE IndexOf(path, cur[1])
        leg  == IF idx < 0 THEN <<path[1], path[2]>> ELSE <<path[idx + 1], path[idx + 2]>>
    IN  IF path = <<>> \/ cur = <<>> THEN none
        ELSE IF idx < 0 /\ Len(path) < 2 THEN none
        ELSE IF idx >= 0 /\ idx + 1 >= Len(path) THEN none
        ELSE IF ~HasStar(GraphAt(current_index), leg[1])
        THEN [current_travel |-> leg, duration |-> current_travel_duration,
              time |-> current_travel_time, raised |-> TRUE]
        ELSE LET speed == mission_params.travelSpeedUnits   \* max(1e-3, 100.0)
                 dist  == DictGet(get_star(GraphAt(current_index), leg[1]).connections, leg[2], 0)
             IN  [current_travel |-> leg,
                  duration |-> Max(TimeScale \div 5, (dist * TimeScale) \div (DistScale * speed)),
                  time |-> 0, raised |-> FALSE]

\* the bonus that doubles the food and leaves pasto_max as it was
HypergiantBonusKeepsMax(b) ==
    [b EXCEPT !.energia = Min(b.energia_max, b.energia + b.energia \div 2),
              !.pasto_disponible = b.pasto_disponible * 2]

(* _process_arrival, `if star.hypergiant:`: half of the energy more, up to   *)
(* energia_max, and twice the food, with pasto_max raised to hold it.        *)
HypergiantBonus(b) ==
    LET add       == b.energia \div 2
        new_pasto == b.pasto_disponible * 2
        cap       == Max(b.pasto_max, b.pasto_disponible * 2)
        pasto     == Min(cap, new_pasto)
    IN  [b EXCEPT !.energia = Min(b.energia_max, b.energia + add),
                  !.pasto_disponible = pasto,
                  !.pasto_max = Max(b.pasto_max, pasto)]

\* the stay that researches first and feeds afterwards
EstanciaInvestigaPrimero(b1, star) ==
    LET max_eat_frac  == mission_params.maxEatFraction
        kg_per_s      == mission_params.kgPerSecondEat
        research_rate == mission_params.researchEnergyPerSecond
        pct_map       == mission_params.energyPerKgPct
        pct           == DictGet(pct_map, b1.estado_salud, DictGet(pct_map, "Excelente", 5))
        eat_time      == Max(0, (star.time_to_eat * StayScale * max_eat_frac[1])
                                    \div max_eat_frac[2])
        research_time == Max(0, star.time_to_research * StayScale - eat_time)
        max_kg        == kg_per_s * eat_time
        kg_eaten      == Min(b1.pasto_disponible * StayScale, max_kg)
        energia_gain  == (pct * b1.energia_max * kg_eaten) \div (100 * StayScale)
        energia_lost  == (research_rate * research_time * EnergyScale) \div StayScale
    IN  [burro |-> [b1 EXCEPT !.pasto_disponible = @ - (kg_eaten \div StayScale),
                              !.energia = Min(b1.energia_max,
                                              Max(0, @ - energia_lost) + energia_gain)],
         entry |-> [graph         |-> GraphAt(current_index).name,
                    star_id       |-> star.id,
                    kg_eaten      |-> kg_eaten \div StayScale,
                    energia_gain  |-> energia_gain \div EnergyScale,
                    energia_lost  |-> energia_lost \div EnergyScale,
                    eat_time      |-> Round2(eat_time, StayScale),
                    research_time |-> Round2(research_time, StayScale),
                    hypergiant    |-> star.hypergiant]]

(* _process_arrival, "Estancia: comer y luego investigar", for the traveler *)
(* b at the star: the traveler it leaves and the entry of the travel log.  *)
(* The entry keeps what the stay computed; the label of the star and the    *)
(* two readings of the traveler (vida_restante, energia) that the report    *)
(* panel prints are left out.                                               *)
Estancia(b1, star) ==
    LET max_eat_frac  == mission_params.maxEatFraction
        kg_per_s      == mission_params.kgPerSecondEat
        research_rate == mission_params.researchEnergyPerSecond
        pct_map       == mission_params.energyPerKgPct
        pct           == DictGet(pct_map, b1.estado_salud, DictGet(pct_map, "Excelente", 5))
        eat_time      == Max(0, (star.time_to_eat * StayScale * max_eat_frac[1])
                                    \div max_eat_frac[2])
        research_time == Max(0, star.time_to_research * StayScale - eat_time)
        max_kg        == kg_per_s * eat_time
        kg_eaten      == Min(b1.pasto_disponible * StayScale, max_kg)
        energia_gain  == (pct * b1.energia_max * kg_eaten) \div (100 * StayScale)
        energia_lost  == (research_rate * research_time * EnergyScale) \div StayScale
    IN  [burro |-> [b1 EXCEPT !.pasto_disponible = @ - (kg_eaten \div StayScale),
                              !.energia = Max(0, Min(b1.energia_max, @ + energia_gain)
                                                 - energia_lost)],
         entry |-> [graph         |-> GraphAt(current_index).name,
                    star_id       |-> star.id,
                    kg_eaten      |-> kg_eaten \div StayScale,
                    energia_gain  |-> energia_gain \div EnergyScale,
                    energia_lost  |-> energia_lost \div EnergyScale,
                    eat_time      |-> Round2(eat_time, StayScale),
                    research_time |-> Round2(research_time, StayScale),
                    hypergiant    |-> star.hypergiant]]

(* ConstellationView._process_arrival(star_id) for the traveler b: the       *)
(* traveler, the visited stars and the travel log it leaves, and the calls   *)
(* of Burro.morir it makes.                                                  *)
_process_arrival(b, star_id) ==
    LET g == GraphAt(current_index)
    IN  IF ~HasStar(g, star_id)
        THEN [burro |-> b, visited_stars |-> visited_stars, travel_log |-> travel_log,
              morir |-> 0]
        ELSE
        LET star == get_star(g, star_id)
            b1   == IF star.hypergiant THEN HypergiantBonus(b) ELSE b
            st   == Estancia(b1, star)
            b2   == st.burro
        IN  [burro         |-> b2,
             visited_stars |-> visited_stars \cup {star_id},
             travel_log    |-> Append(travel_log, st.entry),
             \* `if self.burro.energia <= 0 and self.burro.esta_vivo(): morir()`
             morir         |-> IF b2.energia <= 0 /\ esta_vivo(b2) THEN 1 ELSE 0]

(* ViewManager.set_view to this view: ConstellationView.on_enter.  It runs   *)
(* when the view is shown for the first time, and again whenever TAB, E, F2  *)
(* or F4 made another view the current one and the user comes back; nothing  *)
(* reaches this view in between.                                             *)
on_enter ==
    /\ entered' = TRUE
    /\ burro' = Burro(_burro_data)
    /\ burro_initial_star_selected' = FALSE
    /\ UNCHANGED <<graphs, current_index, blocked_edges, mission_params, call, _burro_data,
                   planned_path, current_travel, current_travel_time,
                   current_travel_duration, visited_stars, travel_log, block_mode,
                   last_route_target_id,
                   morir_calls>>

\* the advance taken whenever a route is planned, a transit under way or not
PuedeAvanzarEnTransito == planned_path # <<>>

\* handle_event, K_n: `self.burro and not self.current_travel and self.planned_path`
PuedeAvanzar == current_travel = <<>> /\ planned_path # <<>>

\* handle_event, K_n: advance along the next leg of the route; the key does
\* nothing during a transit or without a route
KeyN ==
    /\ entered
    /\ IF PuedeAvanzar
       THEN /\ Len(travel_log) < MaxStops
            /\ LET r == _advance_to_next_edge(planned_path)
               IN  /\ current_travel' = r.current_travel
                   /\ current_travel_duration' = r.duration
                   /\ current_travel_time' = r.time
       ELSE UNCHANGED <<current_travel, current_travel_duration, current_travel_time>>
    /\ UNCHANGED <<plan_vars, call, entered, _burro_data, burro_initial_star_selected,
                   planned_path, visited_stars, travel_log, block_mode,
                   last_route_target_id,
                   morir_calls>>

\* handle_event, K_b
KeyB ==
    /\ entered
    /\ block_mode' = ~block_mode
    /\ UNCHANGED <<plan_vars, call, entered, _burro_data, burro_initial_star_selected,
                   planned_path, current_travel, current_travel_time,
                   current_travel_duration, visited_stars, travel_log,
                   last_route_target_id,
                   morir_calls>>

\* a route taken and its first leg begun at once
_start_path_and_go(path) ==
    LET r == _advance_to_next_edge(path)
    IN  [planned_path |-> path, current_travel |-> r.current_travel,
         time |-> r.time, duration |-> r.duration]

\* ConstellationView._start_path: the route is taken and no transit begins
\* ("No iniciar automaticamente: esperar tecla N del usuario")
_start_path(path) ==
    [planned_path |-> path, current_travel |-> <<>>, time |-> 0, duration |-> 0]

(* The route planned by K_o and by the right click under the mission         *)
(* parameters mp: _compute_route from the traveler's star to target_id, then *)
(* _start_path when the route has two stars or more.  A KeyError of the      *)
(* search leaves the route and the transit as they are.                      *)
PlanTo(mp, target_id) ==
    LET gi  == current_index
        cur == burro.current_star_id[1]
    IN  IF _compute_route_raises(mp, gi, cur, target_id)
        THEN UNCHANGED <<planned_path, current_travel, current_travel_time,
                         current_travel_duration>>
        ELSE LET path == _compute_route(mp, gi, cur, target_id, -1)
             IN  IF Len(path) >= 2
                 THEN LET r == _start_path(path)
                      IN  /\ planned_path' = r.planned_path
                          /\ current_travel' = r.current_travel
                          /\ current_travel_time' = r.time
                          /\ current_travel_duration' = r.duration
                 ELSE UNCHANGED <<planned_path, current_travel, current_travel_time,
                                  current_travel_duration>>

\* handle_event, K_o: switch the objective and plan again to the last target
KeyO ==
    /\ entered
    /\ LET obj     == mission_params.routeObjective
           new_obj == IF obj = "max_stars" THEN "min_cost" ELSE "max_stars"
           mp      == [mission_params EXCEPT !.routeObjective = new_obj]
       IN  /\ mission_params' = mp
           /\ IF /\ burro_initial_star_selected
                 /\ burro.current_star_id # <<>>
                 /\ current_travel = <<>>
                 /\ last_route_target_id # <<>>
              THEN PlanTo(mp, last_route_target_id[1])
              ELSE UNCHANGED <<planned_path, current_travel, current_travel_time,
                               current_travel_duration>>
    /\ UNCHANGED <<graphs, current_index, blocked_edges, burro, call, entered, _burro_data,
                   burro_initial_star_selected, visited_stars, travel_log, block_mode,
                   last_route_target_id,
                   morir_calls>>

\* handle_event, right click on the star target_id of the constellation shown
RightClick(target_id) ==
    /\ entered
    /\ HasStar(GraphAt(current_index), target_id)
    /\ burro_initial_star_selected
    /\ burro.current_star_id # <<>>
    /\ target_id # burro.current_star_id[1]
    /\ last_route_target_id' = <<target_id>>
    /\ PlanTo(mission_params, target_id)
    /\ UNCHANGED <<plan_vars, call, entered, _burro_data, burro_initial_star_selected,
                   visited_stars, travel_log, block_mode,
                   morir_calls>>

\* the edges _toggle_edge_at_point measures the click against: <<star.id, nb>>
\* with nb > star.id
ToggleCandidates(g) ==
    UNION {{<<a, nb>> : nb \in {x \in Keys(get_star(g, a).connections) : x > a}} :
              a \in StarIds(g)}

\* the registry toggled at the key that names the endpoints as they come
ToggleKeyAsGiven(reg, gi, a, b) ==
    IF <<gi, a, b>> \in reg THEN reg \ {<<gi, a, b>>} ELSE reg \cup {<<gi, a, b>>}

\* _toggle_edge_at_point, `key = (gi, min(a, b), max(a, b))`: the registry reg
\* without the key if it holds it, with the key if not
ToggleKey(reg, gi, a, b) ==
    LET key == <<gi, Min(a, b), Max(a, b)>>
    IN  IF key \in reg THEN reg \ {key} ELSE reg \cup {key}

(* ConstellationView._toggle_edge_at_point on the registry reg, with edge     *)
(* the closest one, within the threshold.  `g.get_star(nb).coordinates` is    *)
(* evaluated for every edge measured, so a connection to a star of another    *)
(* constellation raises AttributeError before anything is toggled.            *)
_toggle_edge_at_point(reg, edge) ==
    LET g == GraphAt(current_index)
    IN  IF \E e \in ToggleCandidates(g) : ~HasStar(g, e[2])
        THEN reg
        ELSE ToggleKey(reg, current_index, edge[1], edge[2])

\* the click that toggles the edge and calls off the transit under way
ClickToggleEdgeInterrupts(edge) ==
    /\ entered
    /\ block_mode
    /\ edge \in ToggleCandidates(GraphAt(current_index))
    /\ blocked_edges' = _toggle_edge_at_point(blocked_edges, edge)
    /\ current_travel' = <<>>
    /\ current_travel_time' = 0
    /\ current_travel_duration' = 0
    /\ UNCHANGED <<graphs, current_index, mission_params, burro, call, entered,
                   _burro_data, burro_initial_star_selected, planned_path,
                   visited_stars, travel_log, block_mode, last_route_target_id,
                   morir_calls>>

\* handle_event, left click in block mode, next to edge
ClickToggleEdge(edge) ==
    /\ entered
    /\ block_mode
    /\ edge \in ToggleCandidates(GraphAt(current_index))
    /\ blocked_edges' = _toggle_edge_at_point(blocked_edges, edge)
    /\ UNCHANGED <<graphs, current_index, mission_params, burro, call, travel_vars>>

\* handle_event, left click before the traveler is placed: _select_initial_star
ClickSelectInitialStar(star_id) ==
    /\ entered
    /\ ~block_mode
    /\ ~burro_initial_star_selected
    /\ HasStar(GraphAt(current_index), star_id)
    /\ burro' = moverse_a_estrella(burro, star_id)
    /\ burro_initial_star_selected' = TRUE
    /\ UNCHANGED <<graphs, current_index, blocked_edges, mission_params, call, entered,
                   _burro_data, planned_path, current_travel, current_travel_time,
                   current_travel_duration, visited_stars, travel_log, block_mode,
                   last_route_target_id,
                   morir_calls>>

\* the external links of g that leave clicked_id for a star of another constellation
Exits(g, clicked_id) ==
    LET ls == g.external_links
    IN  {i \in 1..Len(ls) : /\ ls[i][1] = clicked_id
                            /\ id_to_gi(ls[i][2]) # <<>>
                            /\ id_to_gi(ls[i][2]) # <<current_index>>}

(* handle_event, left click once the traveler is placed: _handle_click on the *)
(* star clicked_id.  A neighbour of the traveler's star starts a transit to   *)
(* it; otherwise a hypergiant with an external link takes the traveler to the *)
(* linked star of the other constellation.                                    *)
ClickStar(clicked_id) ==
    /\ entered
    /\ ~block_mode
    /\ burro_initial_star_selected
    /\ HasStar(GraphAt(current_index), clicked_id)
    /\ LET g    == GraphAt(current_index)
           cur  == burro.current_star_id
           near == /\ cur # <<>>
                   /\ HasStar(g, cur[1])
                   /\ clicked_id \in Keys(get_star(g, cur[1]).connections)
       IN  IF near
           THEN /\ Len(travel_log) < MaxStops
                /\ planned_path' = <<cur[1], clicked_id>>
                /\ LET r == _advance_to_next_edge(<<cur[1], clicked_id>>)
                   IN  /\ current_travel' = r.current_travel
                       /\ current_travel_duration' = r.duration
                       /\ current_travel_time' = r.time
                /\ UNCHANGED <<current_index, burro, burro_initial_star_selected>>
           ELSE /\ IF get_star(g, clicked_id).hypergiant /\ Exits(g, clicked_id) # {}
                   THEN LET i == CHOOSE j \in Exits(g, clicked_id) :
                                     \A k \in Exits(g, clicked_id) : j <= k
                            b == g.external_links[i][2]
                        IN  /\ current_index' = id_to_gi(b)[1]
                            /\ burro' = moverse_a_estrella(burro, b)
                            /\ burro_initial_star_selected' = TRUE
                   ELSE UNCHANGED <<current_index, burro, burro_initial_star_selected>>
                /\ UNCHANGED <<planned_path, current_travel, current_travel_time,
                               current_travel_duration>>
    /\ UNCHANGED <<graphs, blocked_edges, mission_params, call, entered, _burro_data,
                   visited_stars, travel_log, block_mode, last_route_target_id,
                   morir_calls>>

\* the life budget charged the distance without the floor at 0
ReducirVidaNoFloor(b, dist) == [b EXCEPT !.tiempo_vida = @ - dist]

\* update, "Reducir vida por distancia": the life budget pays the distance
ReducirVida(b, dist) == [b EXCEPT !.tiempo_vida = Max(0, @ - dist)]

\* update, "Comprobar muerte por vida <= 0": the calls of Burro.morir it makes
MuertePorVida(b) == IF b.tiempo_vida <= 0 /\ esta_vivo(b) THEN 1 ELSE 0

\* the traveler under a hunger that takes a unit of energy at every update
Burro_update_hambre(b, dt) == [b EXCEPT !.energia = Max(0, @ - EnergyScale)]

\* Burro.update(dt): the current animation advances ("Sin mecanica de
\* hambre"); energy, food, life budget and star stay as they are
Burro_update(b, dt) == b

(* ConstellationView.update(dt): the step of the transit.  On arrival the     *)
(* life budget pays the distance, the traveler moves, _process_arrival runs   *)
(* and the route is kept or dropped; get_star(_from) is None raises           *)
(* AttributeError once the transit has been cleared.  Without a transit       *)
(* update changes nothing but the rendering.                                  *)
update(dt) ==
    /\ entered
    /\ IF current_travel = <<>>
       THEN /\ morir_calls' = 0
            /\ burro' = Burro_update(burro, dt)
            /\ UNCHANGED <<planned_path, current_travel, current_travel_time,
                           current_travel_duration, visited_stars, travel_log>>
       ELSE LET time     == current_travel_time + dt
                b0       == Burro_update(burro, dt)
                \* 0.001 s, never below a tick
                duration == IF current_travel_duration <= 0
                            THEN TimeScale \div 1000 ELSE current_travel_duration
                gi       == current_index
                from     == current_travel[1]
                to       == current_travel[2]
            IN  IF time < duration
                THEN /\ current_travel_time' = time
                     /\ current_travel_duration' = duration
                     /\ burro' = b0
                     /\ morir_calls' = MuertePorVida(b0)
                     /\ UNCHANGED <<planned_path, current_travel, visited_stars,
                                    travel_log>>
                ELSE /\ current_travel' = <<>>
                     /\ current_travel_time' = 0
                     /\ current_travel_duration' = 0
                     /\ IF ~HasStar(GraphAt(gi), from)
                        THEN /\ morir_calls' = 0
                             /\ burro' = b0
                             /\ UNCHANGED <<planned_path, visited_stars, travel_log>>
                        ELSE LET dist == DictGet(get_star(GraphAt(gi), from).connections, to, 0)
                                 b1   == ReducirVida(b0, dist)
                                 b2   == moverse_a_estrella(b1, to)
                                 r    == _process_arrival(b2, to)
                             IN  /\ burro' = r.burro
                                 /\ visited_stars' = r.visited_stars
                                 /\ travel_log' = r.travel_log
                                 /\ morir_calls' = r.morir + MuertePorVida(r.burro)
                                 /\ planned_path' = IF /\ planned_path # <<>>
                                                       /\ esta_vivo(r.burro)
                                                       /\ r.burro.tiempo_vida > 0
                                                    THEN planned_path
                                                    ELSE <<>>
    /\ UNCHANGED <<graphs, current_index, blocked_edges, mission_params, call, entered,
                   _burro_data, burro_initial_star_selected, block_mode,
                   last_route_target_id>>

---------------------------------------------------------------------------
(* The session: two constellations joined by their hypergiants.             *)

\* "Ruta": the line 1-2-4 with weights 5 and 5, where 2 and 4 are
\* hypergiants; "Otra": the hypergiant 3 alone; 4 and 3 are linked, 7 apart.
DataGame ==
    << [name |-> "Ruta",
        stars |-> << JStar(1, 2, FALSE, << <<2, 5 * DistScale>> >>),
                     JStar(2, 1, TRUE,  << <<4, 5 * DistScale>> >>),
                     JStar(4, 2, TRUE,  << <<3, 7 * DistScale>> >>) >>],
       [name |-> "Otra",
        stars |-> << JStar(3, 1, TRUE,  << >>) >>] >>

\* the travelers a session starts with: one with energy 3, no food and a
\* life budget of 40; one with energy 4, 7 kg of food and a life budget of 7
BurroChoices == {BurroData(3, 0, 40 * DistScale), BurroData(4, 7, 7 * DistScale)}

\* the stars the user right-clicks to plan a route
RouteTargets == {4}

\* the edges the user clicks next to in block mode: 1-2 in "Ruta", and the
\* connection of 3 to the star 4 of the other constellation in "Otra"
ClickedEdges == {<<1, 2>>, <<3, 4>>}

\* the time steps of update: a tenth and a fifth of a second
Dts == {TimeScale \div 10, TimeScale \div 5}

AllStarIds == UNION {StarIds(graphs[i]) : i \in 1..Len(graphs)}

\* the state after ConstellationView.__init__, before the view is shown
Init ==
    /\ graphs = cargar_grafo_desde_json(DataGame)
    /\ current_index = 0
    /\ blocked_edges = {}
    /\ mission_params = MissionDefaults
    /\ _burro_data \in BurroChoices
    /\ burro = Burro(_burro_data)
    /\ call = [state |-> "idle", gi |-> 0, start_id |-> 0, target_id |-> 0,
               cut |-> -1, route |-> <<>>]
    /\ entered = FALSE
    /\ burro_initial_star_selected = FALSE
    /\ planned_path = <<>>
    /\ current_travel = <<>>
    /\ current_travel_time = 0
    /\ current_travel_duration = 0
    /\ visited_stars = {}
    /\ travel_log = <<>>
    /\ block_mode = FALSE
    /\ last_route_target_id = <<>>
    /\ morir_calls = 0
    /\ last_event = "__init__"

\* the handlers the view manager runs, none of them recorded
Next ==
    \/ on_enter /\ UNCHANGED last_event
    \/ KeyN /\ UNCHANGED last_event
    \/ KeyB /\ UNCHANGED last_event
    \/ KeyO /\ UNCHANGED last_event
    \/ \E target_id \in RouteTargets : RightClick(target_id) /\ UNCHANGED last_event
    \/ \E edge \in ClickedEdges : ClickToggleEdge(edge) /\ UNCHANGED last_event
    \/ \E star_id \in AllStarIds : ClickSelectInitialStar(star_id) /\ UNCHANGED last_event
    \/ \E clicked_id \in AllStarIds : ClickStar(clicked_id) /\ UNCHANGED last_event
    \/ \E dt \in Dts : update(dt) /\ UNCHANGED last_event

Spec == Init /\ [][Next]_vars

\* the same handlers, each recorded in last_event as the manager runs it
EventNext ==
    \/ on_enter /\ last_event' = "on_enter"
    \/ KeyN /\ last_event' = "K_n"
    \/ KeyB /\ last_event' = "K_b"
    \/ KeyO /\ last_event' = "K_o"
    \/ \E target_id \in RouteTargets : RightClick(target_id) /\ last_event' = "right_click"
    \/ \E edge \in ClickedEdges : ClickToggleEdge(edge) /\ last_event' = "_toggle_edge_at_point"
    \/ \E star_id \in AllStarIds :
          ClickSelectInitialStar(star_id) /\ last_event' = "_select_initial_star"
    \/ \E clicked_id \in AllStarIds : ClickStar(clicked_id) /\ last_event' = "_handle_click"
    \/ \E dt \in Dts : update(dt) /\ last_event' = "update"

EventSpec == Init /\ [][EventNext]_vars

---------------------------------------------------------------------------
(* models/graph.py on its own: one Graph, as the editor and the loader      *)
(* build it, under any sequence of add_star and add_edge calls.             *)

\* the ids of the stars added
GraphIds == {1, 2}

\* the ids named as endpoints: the stars added and one that never is
GraphEndpoints == GraphIds \cup {3}

\* the distances given to add_edge
GraphDistances == {5 * DistScale, 7 * DistScale}

GraphInit ==
    /\ graphs = <<Graph("Nueva")>>
    /\ current_index = 0
    /\ blocked_edges = {}
    /\ mission_params = MissionDefaults
    /\ _burro_data = BurroData(3, 0, 40 * DistScale)
    /\ burro = Burro(_burro_data)
    /\ call = [state |-> "idle", gi |-> 0, start_id |-> 0, target_id |-> 0,
               cut |-> -1, route |-> <<>>]
    /\ entered = FALSE
    /\ burro_initial_star_selected = FALSE
    /\ planned_path = <<>>
    /\ current_travel = <<>>
    /\ current_travel_time = 0
    /\ current_travel_duration = 0
    /\ visited_stars = {}
    /\ travel_log = <<>>
    /\ block_mode = FALSE
    /\ last_route_target_id = <<>>
    /\ morir_calls = 0
    /\ last_event = "__init__"

\* Graph.add_star with a new Star of the given id (no connections yet)
CallAddStar(id) ==
    /\ graphs' = <<add_star(graphs[1], Star(id, 1, FALSE))>>
    /\ last_event' = "add_star"
    /\ UNCHANGED <<current_index, blocked_edges, mission_params, burro, call, travel_vars>>

\* Graph.add_edge
CallAddEdge(from_id, to_id, distance) ==
    /\ graphs' = <<add_edge(graphs[1], from_id, to_id, distance)>>
    /\ last_event' = "add_edge"
    /\ UNCHANGED <<current_index, blocked_edges, mission_params, burro, call, travel_vars>>

GraphNext ==
    \/ \E id \in GraphIds : CallAddStar(id)
    \/ \E from_id \in GraphEndpoints, to_id \in GraphEndpoints, distance \in GraphDistances :
          CallAddEdge(from_id, to_id, distance)

GraphSpec == GraphInit /\ [][GraphNext]_vars

---------------------------------------------------------------------------
(* What the planner is measured against: the simple paths of a             *)
(* constellation over its unblocked edges, found by exhaustive search.     *)

Blocked(gi, a, b) == \E k \in blocked_edges : k[1] = gi /\ {k[2], k[3]} = {a, b}

\* a and b are stars of constellation gi joined by an edge that is not blocked
OpenEdge(gi, a, b) ==
    /\ HasStar(GraphAt(gi), a)
    /\ HasStar(GraphAt(gi), b)
    /\ b \in Keys(get_star(GraphAt(gi), a).connections)
    /\ ~Blocked(gi, a, b)

EdgeWeight(gi, a, b) == DictGet(get_star(GraphAt(gi), a).connections, b, 0)

Nodes(p) == {p[i] : i \in 1..Len(p)}

IsSimple(p) == Cardinality(Nodes(p)) = Len(p)

IsOpenPath(gi, p) == \A i \in 1..(Len(p) - 1) : OpenEdge(gi, p[i], p[i + 1])

RECURSIVE PathWeight(_, _)
PathWeight(gi, p) ==
    IF Len(p) < 2 THEN 0
    ELSE EdgeWeight(gi, p[1], p[2]) + PathWeight(gi, Tail(p))

\* the stars the connections of a name, a star of constellation gi
Neighbours(gi, a) ==
    IF HasStar(GraphAt(gi), a) THEN Keys(get_star(GraphAt(gi), a).connections) ELSE {}

\* the simple paths over open edges that extend p and end at t
RECURSIVE PathsFrom(_, _, _)
PathsFrom(gi, p, t) ==
    IF p[Len(p)] = t THEN {p}
    ELSE UNION {PathsFrom(gi, Append(p, nb), t) :
                  nb \in {x \in Neighbours(gi, p[Len(p)]) \ Nodes(p) :
                            OpenEdge(gi, p[Len(p)], x)}}

SimplePaths(gi, s, t) == PathsFrom(gi, <<s>>, t)

\* the simple paths the life budget b pays for
Feasible(gi, s, t, b) == {p \in SimplePaths(gi, s, t) : PathWeight(gi, p) <= b}

Returned == call.state = "returned"

Objective == mission_params.routeObjective

CallPaths == SimplePaths(call.gi, call.start_id, call.target_id)

CallFeasible == Feasible(call.gi, call.start_id, call.target_id, burro.tiempo_vida)

InLine == graphs[1].name = "Linea"

---------------------------------------------------------------------------
(* C1: under min_cost, whenever the target is reachable from the start     *)
(* over unblocked edges, the route returned starts at the start, ends at   *)
(* the target, runs over unblocked edges, and its total weight is the      *)
(* least total weight of any start-to-target path over unblocked edges.    *)
C1_MinCostOptimal ==
    (Returned /\ Objective = "min_cost" /\ CallPaths # {}) =>
        /\ call.route # <<>>
        /\ call.route[1] = call.start_id
        /\ call.route[Len(call.route)] = call.target_id
        /\ IsOpenPath(call.gi, call.route)
        /\ \A p \in CallPaths : PathWeight(call.gi, call.route) <= PathWeight(call.gi, p)

\* a cheapest route chosen past a blocked edge, among routes of several weights
C1_Witness ==
    /\ Returned /\ Objective = "min_cost" /\ blocked_edges # {}
    /\ call.start_id # call.target_id
    /\ \E p \in CallPaths, q \in CallPaths :
          /\ PathWeight(call.gi, p) < PathWeight(call.gi, q)
          /\ Len(q) < Len(p)
          /\ call.route = p

(* C2: under max_stars, on a constellation of at most 26 stars, whenever   *)
(* some simple path is within the life budget, the route returned visits   *)
(* as many stars as any simple path within the budget, and among those     *)
(* with that many stars it has the least total weight; on the line A-B-C   *)
(* with weights 5 and 5 and a budget of 12, A to C gives [A, B, C].        *)
C2_MaxStarsOptimal ==
    (Returned /\ Objective = "max_stars" /\ Len(GraphAt(call.gi).vertices) <= NodeCeiling
       /\ CallFeasible # {}) =>
        /\ call.route \in CallFeasible
        /\ \A p \in CallFeasible :
              \/ Len(p) < Len(call.route)
              \/ Len(p) = Len(call.route)
                   /\ PathWeight(call.gi, call.route) <= PathWeight(call.gi, p)
        /\ (InLine /\ blocked_edges = {} /\ burro.tiempo_vida = 12 * DistScale
              /\ call.start_id = 1 /\ call.target_id = 3) => call.route = <<1, 2, 3>>

(* C3: under max_stars, whenever some simple path over unblocked edges is  *)
(* within the life budget, the route returned is a path over unblocked     *)
(* edges whose total weight is within the life budget.                     *)
C3_MaxStarsWithinBudget ==
    (Returned /\ Objective = "max_stars" /\ CallFeasible # {}) =>
        /\ call.route # <<>>
        /\ IsOpenPath(call.gi, call.route)
        /\ PathWeight(call.gi, call.route) <= burro.tiempo_vida

\* a route that spends a budget too small for the longest simple path
C3_Witness ==
    /\ Returned /\ Objective = "max_stars"
    /\ call.start_id # call.target_id
    /\ CallFeasible # {}
    /\ CallFeasible # CallPaths
    /\ PathWeight(call.gi, call.route) = burro.tiempo_vida

(* C4: under max_stars, when no simple path is within the life budget but  *)
(* the target is reachable over unblocked edges, the route returned is     *)
(* the minimum-cost route, over budget as it is; and no route is empty     *)
(* while an unblocked path exists.                                         *)
C4_FallbackToMinCost ==
    /\ (Returned /\ Objective = "max_stars" /\ CallFeasible = {} /\ CallPaths # {}) =>
          /\ call.route = _dijkstra_path(call.gi, call.start_id, call.target_id)
          /\ PathWeight(call.gi, call.route) > burro.tiempo_vida
    /\ (Returned /\ CallPaths # {}) => call.route # <<>>

\* the fallback taken with a budget that pays for part of the way only
C4_Witness ==
    /\ Returned /\ Objective = "max_stars"
    /\ CallFeasible = {} /\ CallPaths # {}
    /\ burro.tiempo_vida > 0
    /\ Len(call.route) >= 3

C6_UnreachableIsEmpty ==
    /\ (Returned /\ call.start_id # call.target_id /\ CallPaths = {}) => call.route = <<>>
    /\ (Returned /\ InLine /\ <<0, 1, 2>> \in blocked_edges
          /\ call.start_id = 1 /\ call.target_id = 3) => call.route = <<>>

\* the line with AB blocked, planning A to C for the largest number of stars
C6_Witness ==
    /\ Returned /\ InLine /\ blocked_edges = {<<0, 1, 2>>}
    /\ Objective = "max_stars"
    /\ call.start_id = 1 /\ call.target_id = 3
    /\ CallPaths = {}

(* C7: a start equal to the target gives the route of that single star,    *)
(* under both objectives, any life budget and any blocked set.             *)
C7_StartIsTarget ==
    (Returned /\ call.start_id = call.target_id) => call.route = <<call.start_id>>

\* planned for the least cost with no budget and every edge of the star blocked
C7_Witness ==
    /\ Returned /\ call.start_id = call.target_id
    /\ Objective = "min_cost"
    /\ burro.tiempo_vida = 0
    /\ \A x \in StarIds(GraphAt(call.gi)) : ~OpenEdge(call.gi, call.start_id, x)

---------------------------------------------------------------------------
(* C8: in every reachable state of a session (placement, direct moves,     *)
(* advances, ticks, arrivals at normal stars and at hypergiants, moves     *)
(* over external links) the traveler's energy is at least 0 and at most    *)
(* energia_max.                                                            *)
C8_EnergyInRange ==
    /\ 0 <= burro.energia
    /\ burro.energia <= burro.energia_max

\* the traveler that arrived at a hypergiant, fed there, crossed to the other
\* constellation and has no energy left
C8_Witness ==
    /\ \E i \in 1..Len(travel_log) : travel_log[i].hypergiant /\ travel_log[i].kg_eaten > 0
    /\ current_index = 1
    /\ burro.energia = 0

(* C9: in every reachable state, after any arrivals (hypergiants that       *)
(* double the food, feeding at every stop), the food of the traveler is at *)
(* least 0 and at most pasto_max.                                          *)
C9_FoodInRange ==
    /\ 0 <= burro.pasto_disponible
    /\ burro.pasto_disponible <= burro.pasto_max

\* two arrivals at hypergiants, fed at both, that leave more food than the
\* session started with
C9_Witness ==
    /\ Len(travel_log) = 2
    /\ \A i \in 1..2 : travel_log[i].hypergiant /\ travel_log[i].kg_eaten > 0
    /\ burro.pasto_disponible > _burro_data.pastoDisponibleKg
    /\ burro.pasto_disponible < burro.pasto_max

\* the weight of the edge of the transit: connections.get(_to, 0)
TransitWeight ==
    DictGet(get_star(GraphAt(current_index), current_travel[1]).connections,
            current_travel[2], 0)

\* a step that completes the transit: update brings the traveler to its far
\* end (a route planned anew drops the transit too, and leaves the traveler
\* and the travel log as they are)
TransitCompletes ==
    /\ current_travel # <<>>
    /\ current_travel' = <<>>
    /\ burro'.current_star_id = <<current_travel[2]>>
    /\ burro' # burro \/ travel_log' # travel_log

\* a step that shows the view again: the traveler is built anew and not placed
SessionReset ==
    /\ entered'
    /\ burro' = Burro(_burro_data)
    /\ ~burro_initial_star_selected'

(* C10: a step that completes a transit over an edge of weight w takes the *)
(* life budget from L to max(0, L - w); the only other step that changes   *)
(* the life budget is the one that shows the view again (on_enter), which  *)
(* builds the traveler anew with the life budget of its data; and the life *)
(* budget is negative in no state.                                         *)
C10_LifeBudgetPaysDistance ==
    [][ /\ burro.tiempo_vida >= 0
        /\ burro'.tiempo_vida >= 0
        /\ TransitCompletes =>
              burro'.tiempo_vida = Max(0, burro.tiempo_vida - TransitWeight)
        /\ burro'.tiempo_vida # burro.tiempo_vida =>
              TransitCompletes \/ SessionReset ]_vars

\* a life budget of 7 that paid two edges of weight 5: 7, 2, 0
C10_Witness ==
    /\ Len(travel_log) = 2
    /\ _burro_data.tiempoDeVidaAniosLuz = 7 * DistScale
    /\ burro.tiempo_vida = 0
    /\ burro.current_star_id = <<4>>

(* C10 as stated: a completed transit over an edge of weight w takes the   *)
(* life budget from L to max(0, L - w), the life budget changes in no      *)
(* other step, and it is negative in no state.                             *)
C10_LifeBudgetChangesOnlyInTransit ==
    [][ /\ burro.tiempo_vida >= 0
        /\ burro'.tiempo_vida >= 0
        /\ TransitCompletes =>
              burro'.tiempo_vida = Max(0, burro.tiempo_vida - TransitWeight)
        /\ burro'.tiempo_vida # burro.tiempo_vida => TransitCompletes ]_vars

---------------------------------------------------------------------------
(* C11: the registry holds only keys (constellation, a, b) with a < b, so  *)
(* _edge_blocked answers the same for an edge named in either order; and   *)
(* toggling an edge of the constellation shown twice, by two clicks or     *)
(* with the endpoints named in either order, gives the registry back.      *)
C11_ToggleTwiceRestores ==
    /\ \A k \in blocked_edges : k[2] < k[3]
    /\ \A gi \in 0..(Len(graphs) - 1) : \A a \in AllStarIds, b \in AllStarIds :
          _edge_blocked(gi, a, b) = _edge_blocked(gi, b, a)
    /\ \A e \in ToggleCandidates(GraphAt(current_index)) :
          /\ _toggle_edge_at_point(_toggle_edge_at_point(blocked_edges, e), e) = blocked_edges
          /\ \A x \in {e, <<e[2], e[1]>>}, y \in {e, <<e[2], e[1]>>} :
                ToggleKey(ToggleKey(blocked_edges, current_index, x[1], x[2]),
                          current_index, y[1], y[2]) = blocked_edges

\* the second click on the edge 1-2 of "Ruta": the registry is empty again
C11_Witness ==
    /\ last_event = "_toggle_edge_at_point"
    /\ current_index = 0
    /\ blocked_edges = {}
    /\ burro_initial_star_selected

\* the star a transit in progress leads to, where the constellation shown holds it
Destino == get_star(GraphAt(current_index), current_travel[2])

\* a step that completes the transit at a star of the constellation shown
Llegada ==
    /\ TransitCompletes
    /\ HasStar(GraphAt(current_index), current_travel[2])
    /\ Len(travel_log') = Len(travel_log) + 1

(* C12 as stated: when a transit completes at a hypergiant and the traveler *)
(* held the energy E before the arrival, feeding and research are applied   *)
(* to min(energia_max, E + E / 2): the energy the arrival leaves is the one *)
(* the stay gives from that value.                                          *)
C12_HypergiantBonusOnEnergyHeld ==
    [][ (Llegada /\ Destino.hypergiant) =>
          LET E       == burro.energia
              arrived == HypergiantBonus(moverse_a_estrella(burro, current_travel[2]))
              claimed == [arrived EXCEPT !.energia = Min(burro.energia_max, E + E \div 2)]
          IN  burro'.energia = Estancia(claimed, Destino).burro.energia ]_vars

\* the traveler has died: no energy left, or no life budget left
Muerto == burro.energia <= 0 \/ burro.tiempo_vida <= 0

(* C13 as stated: once the traveler has died, a step that is not a session *)
(* reset starts no transit, completes no arrival, and leaves the energy,   *)
(* the food, the life budget and the star of the traveler as they are.     *)
C13_DeadIsTerminal ==
    [][ Muerto =>
          \/ SessionReset
          \/ /\ ~(current_travel = <<>> /\ current_travel' # <<>>)
             /\ travel_log' = travel_log
             /\ burro'.energia = burro.energia
             /\ burro'.pasto_disponible = burro.pasto_disponible
             /\ burro'.tiempo_vida = burro.tiempo_vida
             /\ burro'.current_star_id = burro.current_star_id ]_vars

(* C14 as stated: a transit that completes leaving no life budget, made by *)
(* a traveler that was alive, leaves a traveler for which esta_vivo() is   *)
(* false (the first of the later states in which the claim wants it false).*)
C14_DeathByLifeBudget ==
    [][ (Llegada /\ esta_vivo(burro) /\ burro'.tiempo_vida <= 0)
          => ~esta_vivo(burro') ]_vars

(* C15 as stated: an arrival of a traveler that was alive and that leaves  *)
(* it without energy runs Burro.morir exactly once in that update (the     *)
(* check on the life budget adds no call: it asks for esta_vivo()).        *)
C15_DeathByEnergy ==
    [][ (Llegada /\ esta_vivo(burro) /\ burro'.energia <= 0)
          => morir_calls' = 1 ]_vars

\* a transit begins in this step
Comienza == current_travel' # <<>> /\ current_travel' # current_travel

(* C16: no autoplay.  A transit begins only in the step of the advance key  *)
(* or of a click on a star next to the traveler (which makes the route of   *)
(* that one edge): never in an update, whether no transit is under way or   *)
(* one arrives with edges remaining, and never in the handlers that plan a  *)
(* route with _start_path (right click, K_o); so without a transit every    *)
(* update leaves current_travel None.                                       *)
C16_NoAutoplay ==
    [][ /\ Comienza => last_event' \in {"K_n", "_handle_click"}
        /\ (last_event' = "update" /\ current_travel = <<>>) => current_travel' = <<>>
        /\ last_event' \in {"right_click", "K_o"} => current_travel' \in {<<>>, current_travel}
      ]_vars

\* the traveler has arrived at 2 on the planned route 1-2-4 and updates run
\* with the edge 2-4 remaining and no transit
C16_Witness ==
    /\ last_event = "update"
    /\ morir_calls = 0
    /\ planned_path = <<1, 2, 4>>
    /\ burro.current_star_id = <<2>>
    /\ Len(travel_log) = 1
    /\ current_travel = <<>>

(* C17 as stated: an arrival at the last star of the planned route that    *)
(* leaves the traveler alive with life budget left leaves no planned route.*)
C17_RouteExhaustionLeadsToIdle ==
    [][ ( /\ Llegada
          /\ planned_path # <<>>
          /\ planned_path[Len(planned_path)] = current_travel[2]
          /\ esta_vivo(burro')
          /\ burro'.tiempo_vida > 0 )
          => planned_path' = <<>> ]_vars

(* C18: an update while no transit is under way leaves the energy, the     *)
(* food, the life budget and the star of the traveler, the planned route,  *)
(* the visited set and the travel log as they are (and begins no transit). *)
C18_TickWithoutTransit ==
    [][ (last_event' = "update" /\ current_travel = <<>>) =>
          /\ burro'.energia = burro.energia
          /\ burro'.pasto_disponible = burro.pasto_disponible
          /\ burro'.tiempo_vida = burro.tiempo_vida
          /\ burro'.current_star_id = burro.current_star_id
          /\ UNCHANGED <<planned_path, visited_stars, travel_log, current_travel>> ]_vars

\* an update has run on a placed traveler that waits with a route planned
\* and no transit
C18_Witness ==
    /\ last_event = "update"
    /\ current_travel = <<>>
    /\ burro.current_star_id = <<1>>
    /\ planned_path = <<1, 2, 4>>
    /\ travel_log = <<>>

(* C19: the advance key pressed while a transit is under way leaves the    *)
(* transit (its pair of stars, its elapsed time and its duration), the     *)
(* planned route and the traveler as they are.                             *)
C19_AdvanceDuringTransit ==
    [][ (last_event' = "K_n" /\ current_travel # <<>>) =>
          UNCHANGED <<current_travel, current_travel_time, current_travel_duration,
                      planned_path, burro>> ]_vars

\* the advance key has been pressed in the middle of the transit from 2 to 4
\* of the planned route 1-2-4
C19_Witness ==
    /\ last_event = "K_n"
    /\ current_travel = <<2, 4>>
    /\ current_travel_time > 0
    /\ planned_path = <<1, 2, 4>>

(* C20: blocking does not interrupt the transit.  The click that toggles   *)
(* an edge during a transit leaves the pair of stars, the elapsed time and *)
(* the duration of the transit, the route and the traveler as they are;    *)
(* and every update of a transit along a blocked edge either adds to the   *)
(* elapsed time of the same transit or is the arrival at its far end, the  *)
(* life budget paying the weight of the edge down to 0.                    *)
C20_BlockDoesNotInterruptTransit ==
    [][ /\ (last_event' = "_toggle_edge_at_point" /\ current_travel # <<>>) =>
              UNCHANGED <<current_travel, current_travel_time, current_travel_duration,
                          planned_path, burro>>
        /\ ( /\ last_event' = "update"
             /\ current_travel # <<>>
             /\ _edge_blocked(current_index, current_travel[1], current_travel[2]) ) =>
              \/ /\ UNCHANGED <<current_travel, current_travel_duration, burro>>
                 /\ current_travel_time' > current_travel_time
                 /\ current_travel_time' < current_travel_duration
              \/ /\ Llegada
                 /\ burro'.tiempo_vida = Max(0, burro.tiempo_vida - TransitWeight)
      ]_vars

\* the edge 1-2 has been blocked in the middle of the transit from 1 to 2
C20_Witness ==
    /\ last_event = "_toggle_edge_at_point"
    /\ current_travel = <<1, 2>>
    /\ current_travel_time > 0
    /\ _edge_blocked(current_index, 1, 2)

(* C21 as stated: no transit begins along an edge that the registry holds  *)
(* as blocked at the moment of the advance or of the click.                *)
C21_AdvanceRefusesBlockedEdge ==
    [][ Comienza =>
          ~_edge_blocked(current_index, current_travel'[1], current_travel'[2]) ]_vars

\* the graph g is undirected: every connection to a star of g has its mirror
Undirected(g) ==
    \A a \in StarIds(g) :
        \A b \in Keys(get_star(g, a).connections) \cap StarIds(g) :
            /\ a \in Keys(get_star(g, b).connections)
            /\ DictGet(get_star(g, b).connections, a, 0)
                  = DictGet(get_star(g, a).connections, b, 0)

(* C22 as stated: after any sequence of add_star and add_edge calls, every *)
(* connection a -> b of weight w between two stars of the graph has the    *)
(* connection b -> a of weight w.                                          *)
C22_GraphUndirected == Undirected(graphs[1])

\* the update that brings a transit to its end in the constellation of its
\* edge (a transit whose origin is not a star of the constellation shown is
\* dropped by update with no arrival: the traveler reaches no star)
LlegaPorUpdate ==
    /\ last_event' = "update"
    /\ current_travel # <<>>
    /\ current_travel' = <<>>
    /\ HasStar(GraphAt(current_index), current_travel[1])

(* C23 as stated: arrival processing runs once per star reached.  The     *)
(* update that completes a transit, of a planned route or of a click on a  *)
(* neighbour, puts the traveler on the destination, adds the destination   *)
(* to the visited set and appends one record of that star to the travel    *)
(* log, leaving the earlier records as they are; no other step changes the *)
(* log or the visited set.                                                 *)
C23_ArrivalOncePerNode ==
    [][ IF LlegaPorUpdate
        THEN /\ burro'.current_star_id = <<current_travel[2]>>
             /\ visited_stars' = visited_stars \cup {current_travel[2]}
             /\ Len(travel_log') = Len(travel_log) + 1
             /\ SubSeq(travel_log', 1, Len(travel_log)) = travel_log
             /\ travel_log'[Len(travel_log')].star_id = current_travel[2]
        ELSE UNCHANGED <<travel_log, visited_stars>> ]_vars

\* the places of the traveler's star on the planned route
EnRuta == {i \in 1..Len(planned_path) : burro.current_star_id = <<planned_path[i]>>}

(* C24: the planned route is consumed in order, one edge per advance.  The *)
(* traveler's star is at one place i of the route at most.  The advance    *)
(* key pressed with the traveler at place i and no transit under way       *)
(* begins the transit from place i to place i + 1 and leaves the traveler  *)
(* and the route as they are, and begins nothing at the last place; every  *)
(* update of that transit leaves the traveler on place i until the one     *)
(* that arrives, which puts it on place i + 1.                             *)
C24_RouteConsumedInOrder ==
    [][ /\ Cardinality(EnRuta) <= 1
        /\ \A i \in EnRuta :
              /\ (last_event' = "K_n" /\ current_travel = <<>>) =>
                    /\ UNCHANGED <<burro, planned_path>>
                    /\ current_travel' = IF i < Len(planned_path)
                                         THEN <<planned_path[i], planned_path[i + 1]>>
                                         ELSE <<>>
              /\ ( /\ last_event' = "update"
                   /\ i < Len(planned_path)
                   /\ current_travel = <<planned_path[i], planned_path[i + 1]>> ) =>
                    \/ UNCHANGED <<burro, planned_path, current_travel>>
                    \/ /\ current_travel' = <<>>
                       /\ burro'.current_star_id = <<planned_path[i + 1]>>
      ]_vars

\* the second advance of the route 1-2-4 has begun the transit from 2 to 4,
\* after the arrival at 2
C24_Witness ==
    /\ last_event = "update"
    /\ planned_path = <<1, 2, 4>>
    /\ current_travel = <<2, 4>>
    /\ current_travel_time > 0
    /\ burro.current_star_id = <<2>>
    /\ Len(travel_log) = 1
    /\ travel_log[1].star_id = 2

(* C25 as stated: a transit under way is left only by arriving.  A step    *)
(* that ends or replaces the transit is the arrival at its far end, and a  *)
(* step that keeps it does not set its elapsed time back.                  *)
C25_TransitEndsOnlyByArrival ==
    [][ current_travel # <<>> =>
          IF current_travel' = current_travel
          THEN current_travel_time' >= current_travel_time
          ELSE Llegada ]_vars

\* the food the traveler holds when the stay at the destination begins
PastoAlLlegar ==
    IF Destino.hypergiant THEN HypergiantBonus(burro).pasto_disponible
    ELSE burro.pasto_disponible

\* kgPerSecondEat * time_to_eat * maxEatFraction, in units of 1/StayScale kg
MaxKgDestino ==
    (mission_params.kgPerSecondEat * Destino.time_to_eat * StayScale
        * mission_params.maxEatFraction[1]) \div mission_params.maxEatFraction[2]

(* C26 as stated, for the food: on every arrival the food stock goes down  *)
(* by exactly kg_eaten = min(food stock, kgPerSecondEat * time_to_eat *    *)
(* maxEatFraction), the amount the energy gained is computed from, also    *)
(* when kg_eaten is not a whole number (amounts in units of 1/StayScale).  *)
C26_FeedingConsistent ==
    [][ Llegada =>
          burro'.pasto_disponible * StayScale
            = PastoAlLlegar * StayScale - Min(PastoAlLlegar * StayScale, MaxKgDestino) ]_vars

(* C27: the energy after the arrival at a star that is no hypergiant.     *)
(* With E the energy when arrival processing starts (the move charged),   *)
(* eat_time = time_to_eat * maxEatFraction, research_time =                *)
(* max(0, time_to_research - eat_time) and gain = energyPerKgPct / 100 *   *)
(* energy_max * min(food, kgPerSecondEat * eat_time), the arrival leaves   *)
(* max(0, min(energy_max, E + gain) - researchEnergyPerSecond *            *)
(* research_time): feeding first, research after (times and kilograms in   *)
(* units of 1/StayScale, energy in units of 1/EnergyScale).                *)
C27_ArrivalEnergy ==
    [][ (Llegada /\ ~Destino.hypergiant) =>
          LET E        == moverse_a_estrella(burro, current_travel[2]).energia
              frac     == mission_params.maxEatFraction
              eat      == (Destino.time_to_eat * StayScale * frac[1]) \div frac[2]
              research == Max(0, Destino.time_to_research * StayScale - eat)
              kg       == Min(burro.pasto_disponible * StayScale,
                              mission_params.kgPerSecondEat * eat)
              pct      == DictGet(mission_params.energyPerKgPct, burro.estado_salud, 5)
              gain     == (pct * burro.energia_max * kg) \div (100 * StayScale)
              lost     == (mission_params.researchEnergyPerSecond * research * EnergyScale)
                             \div StayScale
          IN  burro'.energia = Max(0, Min(burro.energia_max, E + gain) - lost) ]_vars

\* the traveler has arrived at star 1, no hypergiant, where it ate 5 kg (one
\* unit of energy) and lost two units to research, with energy to spare
C27_Witness ==
    /\ travel_log # <<>>
    /\ burro.current_star_id = <<1>>
    /\ current_travel = <<>>
    /\ LET e == travel_log[Len(travel_log)]
       IN  /\ e.star_id = 1
           /\ ~e.hypergiant
           /\ e.kg_eaten = 5
           /\ e.energia_gain = 1
           /\ e.energia_lost = 2
    /\ burro.energia > 0

(* The search of _max_stars_path_v2 without its memo table: dfs with the   *)
(* lines that read and write memo taken out, everything else as it is.     *)
RECURSIVE dfs_sin_memo(_, _, _, _, _, _, _)
RECURSIVE dfs_sin_memo_expand(_, _, _, _, _, _, _, _)

dfs_sin_memo(c, node, remaining, visited_mask, path, dist_acc, st) ==
    IF node = c.target_id
    THEN IF Better(Len(path), dist_acc, st)
         THEN [st EXCEPT !.best_count = Len(path), !.best_dist = dist_acc, !.best_path = path]
         ELSE st
    ELSE IF c.n < st.best_count THEN st
    ELSE dfs_sin_memo_expand(c, node, remaining, visited_mask, path, dist_acc, 1, st)

dfs_sin_memo_expand(c, node, remaining, visited_mask, path, dist_acc, i, st) ==
    LET vecs == IF node \in DOMAIN c.adj THEN c.adj[node] ELSE <<>>
    IN  IF i > Len(vecs) THEN st
        ELSE LET nb == vecs[i][1]
                 w  == vecs[i][2]
             IN  IF ~Affordable(w, remaining) \/ ~HasStar(c.g, nb)
                 THEN dfs_sin_memo_expand(c, node, remaining, visited_mask, path, dist_acc,
                                          i + 1, st)
                 ELSE LET bit == Pow2(IdToIdx(c.g, nb))
                      IN  IF BitSet(visited_mask, bit)
                          THEN dfs_sin_memo_expand(c, node, remaining, visited_mask, path,
                                                   dist_acc, i + 1, st)
                          ELSE dfs_sin_memo_expand(c, node, remaining, visited_mask, path,
                                   dist_acc, i + 1,
                                   dfs_sin_memo(c, nb, remaining - w, visited_mask + bit,
                                                Append(path, nb), dist_acc + w, st))

\* the route of the call as the search without memo gives it
RutaSinMemo ==
    LET g == GraphAt(call.gi)
        c == [target_id |-> call.target_id, n |-> Len(g.vertices),
              adj |-> AdjSorted(call.gi), g |-> g]
        best_path == dfs_sin_memo(c, call.start_id, burro.tiempo_vida,
                                  Pow2(IdToIdx(g, call.start_id)), <<call.start_id>>, 0,
                                  SearchInit).best_path
    IN  IF call.start_id = call.target_id THEN <<call.start_id>>
        ELSE IF best_path = <<>>
        THEN _dijkstra_path(call.gi, call.start_id, call.target_id)
        ELSE best_path

(* C28 as stated: on a constellation of at most 26 stars the memoized      *)
(* search returns a route with as many stars and the same total weight as  *)
(* the same search without the memo table.                                 *)
C28_MemoKeepsAnswer ==
    (Returned /\ Objective = "max_stars" /\ Len(GraphAt(call.gi).vertices) <= NodeCeiling) =>
        /\ Len(call.route) = Len(RutaSinMemo)
        /\ PathWeight(call.gi, call.route) = PathWeight(call.gi, RutaSinMemo)

\* the call is on a constellation of more than 26 stars, under max_stars
CallTimeBoxed ==
    Returned /\ Objective = "max_stars" /\ Len(GraphAt(call.gi).vertices) > NodeCeiling

\* what the time-boxed search had recorded when it returned
Recorded ==
    _max_stars_path(call.gi, call.start_id, call.target_id, burro.tiempo_vida, call.cut)

(* C29: the time-boxed planning stays sound.  On a constellation of more   *)
(* than 26 stars, whenever the time limit strikes (before any of the calls *)
(* of dfs, or never), the route returned under max_stars is the path the   *)
(* search had recorded, a simple path from the start to the target over    *)
(* unblocked edges within the life budget; or, with no path recorded, the  *)
(* minimum-cost route, empty only when no unblocked path exists.           *)
C29_TimeBoxedPlanningSound ==
    CallTimeBoxed =>
        IF Recorded # <<>>
        THEN /\ call.route = Recorded
             /\ IsSimple(call.route)
             /\ call.route[1] = call.start_id
             /\ call.route[Len(call.route)] = call.target_id
             /\ IsOpenPath(call.gi, call.route)
             /\ PathWeight(call.gi, call.route) <= burro.tiempo_vida
        ELSE /\ call.route = _dijkstra_path(call.gi, call.start_id, call.target_id)
             /\ call.route = <<>> => CallPaths = {}

\* the limit struck after the search had recorded a path with fewer stars
\* than another path within the budget has
C29_Witness ==
    /\ CallTimeBoxed
    /\ call.cut >= 0
    /\ call.start_id # call.target_id
    /\ Recorded # <<>>
    /\ \E q \in CallFeasible : Len(q) > Len(call.route)

\* stars of the constellation of the call hold connections to stars of
\* other constellations
CrossConnections ==
    \E a \in StarIds(GraphAt(call.gi)) :
        Keys(get_star(GraphAt(call.gi), a).connections) \ StarIds(GraphAt(call.gi)) # {}

====
